---- MODULE Spec2Model ----
(***************************************************************************)
(* Model of src/fetchers/top-languages.js: fetchTopLanguages, the          *)
(* cursor-paginated collection of repository nodes followed by the         *)
(* weighted aggregation of their language edges.                           *)
(*                                                                         *)
(* A provider or error message is modelled by the sequence of the lengths  *)
(* of its words, which is all that line wrapping depends on.               *)
(***************************************************************************)
EXTENDS Integers, Sequences, FiniteSets, TLC

\* ---------------------------------------------------------------- bounds
MaxPages == 2    \* page responses per run
MaxNodes == 2    \* repository nodes over all pages of a run

\* ---------------------------------------------------------------- values
Null == "null"
Undefined == "undefined"

Usernames == {Undefined, "", "octocat"}
RepoNames == {"a", "b"}
ExcludeArgs == {<<>>, <<"a">>}
EnvExcludes == {<<>>, <<"b">>}
\* <<size_weight, count_weight>>: the defaults, count only, and a mixed pair.
Weights == {<<1, 0>>, <<0, 1>>, <<2, 1>>}
Cursors == {"c1", "c2"}

LanguageEdge(size, name, color) ==
  [size |-> size, node |-> [name |-> name, color |-> color]]

\* languages.edges of a repository node: none, one language, the two
\* languages, and one language listed twice with different colors.
EdgeLists ==
  { <<>>,
    <<LanguageEdge(2, "X", "red")>>,
    <<LanguageEdge(0, "X", "blue")>>,
    <<LanguageEdge(1, "Y", "red")>>,
    <<LanguageEdge(1, "Y", "red"), LanguageEdge(2, "X", "red")>>,
    <<LanguageEdge(2, "X", "red"), LanguageEdge(0, "X", "blue")>> }

PageInfos ==
  { [hasNextPage |-> TRUE, endCursor |-> c] : c \in Cursors }
    \cup { [hasNextPage |-> FALSE, endCursor |-> Null] }

\* data.errors of a response, and the response's statusText.
ErrorLists ==
  { <<[type |-> "NOT_FOUND", message |-> <<30, 30>>]>>,
    <<[type |-> "NOT_FOUND", message |-> <<>>]>>,
    <<[type |-> "FORBIDDEN", message |-> <<30, 30>>]>>,
    <<[type |-> "FORBIDDEN", message |-> <<50, 50, 20>>]>>,
    <<[type |-> "FORBIDDEN", message |-> <<>>]>>,
    <<[type |-> "FORBIDDEN", message |-> <<>>],
      [type |-> "NOT_FOUND", message |-> <<30, 30>>]>> }
ErrorResponses ==
  { [errors |-> e, statusText |-> "OK"] : e \in ErrorLists }
    \cup { [errors |-> <<[type |-> "FORBIDDEN", message |-> <<50, 50, 20>>]>>,
            statusText |-> "Forbidden"] }

USER_NOT_FOUND == "USER_NOT_FOUND"
GRAPHQL_ERROR == "GRAPHQL_ERROR"
\* "Could not fetch user."
CouldNotFetchUser == <<5, 3, 5, 5>>
\* "Something went wrong while trying to retrieve the language data using the GraphQL API."
SomethingWentWrong == <<9, 4, 5, 5, 6, 2, 8, 3, 8, 4, 5, 3, 7, 4>>

NoError == [class |-> "none", type |-> "", message |-> <<>>]

Range(s) == { s[i] : i \in 1..Len(s) }

\* ---------------------------------------------------------------- inputs
\* A node whose language-edge list is missing has hasEdges = FALSE.
RepoNodes ==
  { [name |-> n, hasEdges |-> TRUE, edges |-> s] : n \in RepoNames, s \in EdgeLists }
    \cup { [name |-> n, hasEdges |-> FALSE, edges |-> <<>>] : n \in RepoNames }

\* ---------------------------------------------------------------- helpers
\* Faulty variant: only an absent username is refused.
FalsyUndefinedOnly(name) == name = Undefined

\* if (!username): undefined and the empty string are falsy.
Falsy(name) == name \in {Undefined, ""}

\* Characters of a line of words joined by single spaces.
RECURSIVE LineLength(_)
LineLength(words) ==
  IF words = <<>> THEN 0
  ELSE IF Len(words) = 1 THEN words[1]
  ELSE Head(words) + 1 + LineLength(Tail(words))

\* Greedy word wrap of the words into lines of at most width characters.
RECURSIVE WrapWords(_, _, _)
WrapWords(words, width, line) ==
  IF words = <<>> THEN (IF line = <<>> THEN <<>> ELSE <<line>>)
  ELSE IF line = <<>> \/ LineLength(Append(line, Head(words))) <= width
       THEN WrapWords(Tail(words), width, Append(line, Head(words)))
       ELSE <<line>> \o WrapWords(words, width, <<>>)

wrapTextMultiline(text, width, maxLines) ==
  LET lines == WrapWords(text, width, <<>>)
  IN SubSeq(lines, 1, IF Len(lines) < maxLines THEN Len(lines) ELSE maxLines)

WrapWidth == 90
WrapMaxLines == 1

CustomError(message, type) ==
  [class |-> "CustomError", type |-> type, message |-> message]

MissingParamError == [class |-> "MissingParamError", type |-> "", message |-> <<>>]
TypeError == [class |-> "TypeError", type |-> "", message |-> <<>>]
RetryerError == [class |-> "RetryerError", type |-> "", message |-> <<>>]

\* Faulty variant: the message is looked at before the NOT_FOUND type.
ErrorOfResponseMessageFirst(errors, statusText) ==
  LET firstError == errors[1]
  IN IF firstError.message # <<>>
     THEN CustomError(wrapTextMultiline(firstError.message, WrapWidth, WrapMaxLines)[1],
                      statusText)
     ELSE IF firstError.type = "NOT_FOUND"
     THEN CustomError(CouldNotFetchUser, USER_NOT_FOUND)
     ELSE CustomError(SomethingWentWrong, GRAPHQL_ERROR)

\* Lines 83-102: the error thrown for a response whose data.errors is present.
ErrorOfResponse(errors, statusText) ==
  LET firstError == errors[1]
  IN IF firstError.type = "NOT_FOUND"
     THEN CustomError(IF firstError.message # <<>> THEN firstError.message
                      ELSE CouldNotFetchUser,
                      USER_NOT_FOUND)
     ELSE IF firstError.message # <<>>
     THEN CustomError(wrapTextMultiline(firstError.message, WrapWidth, WrapMaxLines)[1],
                      statusText)
     ELSE CustomError(SomethingWentWrong, GRAPHQL_ERROR)

\* Faulty variant: the page replaces the accumulated list.
ConcatNodesOverwrite(acc, nodes) == nodes

\* Line 105: allRepoNodes.concat(repositories.nodes)
ConcatNodes(acc, nodes) == acc \o nodes

\* Faulty variant: the cursor is never advanced.
NextCursorStale(old, pageInfo) == old

\* Line 110: cursor = repositories.pageInfo.endCursor
NextCursor(old, pageInfo) == pageInfo.endCursor

\* Faulty variant: the process-wide list is left out.
AllExcludedReposPerCallOnly(perCall, processWide) == perCall

\* Line 113: [...exclude_repo, ...excludeRepositories]
AllExcludedRepos(perCall, processWide) == perCall \o processWide

\* Lines 114-116, 120: repoToHide[repo.name]
RepoToHide(allExcluded, name) == name \in Range(allExcluded)

\* Line 119 comparator (a, b) => b.size - a.size.  The query (lines 29-40)
\* fetches no size for a repository node, so the difference is NaN, which
\* Array.prototype.sort takes as +0.
CompareRepos(a, b) == 0

\* Array.prototype.sort is stable: x goes after every element that does not
\* compare greater than it.
RECURSIVE InsertRepo(_, _)
InsertRepo(sorted, x) ==
  IF sorted = <<>> THEN <<x>>
  ELSE IF CompareRepos(Head(sorted), x) <= 0
       THEN <<Head(sorted)>> \o InsertRepo(Tail(sorted), x)
       ELSE <<x>> \o sorted

RECURSIVE SortRepos(_)
SortRepos(nodes) ==
  IF nodes = <<>> THEN <<>>
  ELSE InsertRepo(SortRepos(SubSeq(nodes, 1, Len(nodes) - 1)), nodes[Len(nodes)])

\* Lines 118-120
VisibleRepos(nodes, allExcluded) ==
  LET Shown(repo) == ~RepoToHide(allExcluded, repo.name)
  IN SelectSeq(SortRepos(nodes), Shown)

\* Line 125 reads node.languages.edges.length: a TypeError when the list is missing.
EdgesUnreadable(nodes) == \E i \in 1..Len(nodes) : ~nodes[i].hasEdges

\* Line 125
NonEmptyRepos(nodes) ==
  LET HasEdges(node) == Len(node.edges) > 0
  IN SelectSeq(nodes, HasEdges)

\* Line 126: reduce((acc, curr) => curr.languages.edges.concat(acc), [])
RECURSIVE FlattenEdges(_)
FlattenEdges(nodes) ==
  IF nodes = <<>> THEN <<>>
  ELSE nodes[Len(nodes)].edges \o FlattenEdges(SubSeq(nodes, 1, Len(nodes) - 1))

\* Position of the key in the mapping, 0 when absent.  A mapping is the
\* sequence of its entries in key insertion order.
KeyIndex(acc, langName) ==
  IF \E i \in 1..Len(acc) : acc[i].name = langName
  THEN CHOOSE i \in 1..Len(acc) : acc[i].name = langName
  ELSE 0

\* Faulty variant: the color of the first edge is kept.
MergeEdgeKeepColor(prev, edge) ==
  [name |-> edge.node.name, color |-> prev.color,
   size |-> prev.size + edge.size, count |-> prev.count + 1]

\* Lines 132-138
MergeEdge(prev, edge) ==
  [name |-> edge.node.name, color |-> edge.node.color,
   size |-> prev.size + edge.size, count |-> prev.count + 1]

\* Lines 140-146
FirstEdge(edge) ==
  [name |-> edge.node.name, color |-> edge.node.color,
   size |-> edge.size, count |-> 1]

\* Lines 127-149, one step of the reduce
AddEdge(acc, edge) ==
  LET i == KeyIndex(acc, edge.node.name)
  IN IF i # 0 THEN [acc EXCEPT ![i] = MergeEdge(acc[i], edge)]
     ELSE Append(acc, FirstEdge(edge))

RECURSIVE FoldEdges(_)
FoldEdges(edges) ==
  IF edges = <<>> THEN <<>>
  ELSE AddEdge(FoldEdges(SubSeq(edges, 1, Len(edges) - 1)), edges[Len(edges)])

\* Math.pow for natural arguments; Math.pow(x, 0) is 1, also for x = 0.
RECURSIVE Pow(_, _)
Pow(x, n) == IF n = 0 THEN 1 ELSE x * Pow(x, n - 1)

\* Faulty variant: the two weights are swapped.
WeightedSizeSwapped(lang, sizeWeight, countWeight) ==
  Pow(lang.size, countWeight) * Pow(lang.count, sizeWeight)

\* Lines 153-154
WeightedSize(lang, sizeWeight, countWeight) ==
  Pow(lang.size, sizeWeight) * Pow(lang.count, countWeight)

\* Lines 151-155
ApplyWeights(stats, sizeWeight, countWeight) ==
  [i \in 1..Len(stats) |->
     [stats[i] EXCEPT !.size = WeightedSize(stats[i], sizeWeight, countWeight)]]

\* Faulty variant: ascending order.
CompareLangsAscending(a, b) == a.size - b.size

\* Line 158 comparator (a, b) => languageStats[b].size - languageStats[a].size
CompareLangs(a, b) == b.size - a.size

RECURSIVE InsertLang(_, _)
InsertLang(sorted, x) ==
  IF sorted = <<>> THEN <<x>>
  ELSE IF CompareLangs(Head(sorted), x) <= 0
       THEN <<Head(sorted)>> \o InsertLang(Tail(sorted), x)
       ELSE <<x>> \o sorted

\* Lines 157-162
RECURSIVE SortLangs(_)
SortLangs(stats) ==
  IF stats = <<>> THEN <<>>
  ELSE InsertLang(SortLangs(SubSeq(stats, 1, Len(stats) - 1)), stats[Len(stats)])

\* Lines 122-164 on the visible repositories
TopLangsOf(visible, sizeWeight, countWeight) ==
  SortLangs(ApplyWeights(FoldEdges(FlattenEdges(NonEmptyRepos(visible))),
                         sizeWeight, countWeight))

\* ---------------------------------------------------------------- state
VARIABLES
  pc,                   \* "start", "await", "collected", "done", "failed"
  username, exclude_repo, size_weight, count_weight,   \* arguments
  excludeRepositories,  \* process-wide exclusion list (common/envs.js)
  allRepoNodes, cursor, \* locals of fetchTopLanguages
  inflight,             \* variables of the retryer calls not yet settled
  fetchCount,           \* retryer calls issued so far
  pageCount,            \* error-free pages received so far
  lastPageInfo,         \* pageInfo of the latest such page
  fetched,              \* the nodes of those pages, in order of arrival
  errorRes,             \* the response that carried data.errors, if any
  error,                \* the rejection of the returned promise
  topLangs              \* the value the returned promise resolves to

vars == <<pc, username, exclude_repo, size_weight, count_weight,
          excludeRepositories, allRepoNodes, cursor, inflight, fetchCount,
          pageCount, lastPageInfo, fetched, errorRes, error, topLangs>>

args == <<username, exclude_repo, size_weight, count_weight, excludeRepositories>>

NoErrorRes == [errors |-> <<>>, statusText |-> "OK"]
NoPageInfo == [hasNextPage |-> TRUE, endCursor |-> Null]

Init ==
  /\ pc = "start"
  /\ username \in Usernames
  /\ exclude_repo \in ExcludeArgs
  /\ \E w \in Weights : size_weight = w[1] /\ count_weight = w[2]
  /\ excludeRepositories \in EnvExcludes
  /\ allRepoNodes = <<>>
  /\ cursor = Null
  /\ inflight = <<>>
  /\ fetchCount = 0
  /\ pageCount = 0
  /\ lastPageInfo = NoPageInfo
  /\ fetched = <<>>
  /\ errorRes = NoErrorRes
  /\ error = NoError
  /\ topLangs = <<>>

\* Line 81: retryer(fetcher, { login: username, reposAfter: cursor })
Retryer(settled, after) ==
  /\ inflight' = Append(SubSeq(inflight, settled + 1, Len(inflight)),
                        [login |-> username, reposAfter |-> after])
  /\ fetchCount' = fetchCount + 1

\* Lines 72-81: the call up to its first await.
Call ==
  /\ pc = "start"
  /\ IF Falsy(username)
     THEN /\ pc' = "failed"
          /\ error' = MissingParamError
          /\ UNCHANGED <<inflight, fetchCount>>
     ELSE /\ pc' = "await"
          /\ Retryer(0, Null)
          /\ UNCHANGED error
  /\ allRepoNodes' = <<>>
  /\ cursor' = Null
  /\ UNCHANGED <<args, pageCount, lastPageInfo, fetched, errorRes, topLangs>>

\* The retryer gives up: the await at line 81 throws.
RetryerRejects ==
  /\ pc = "await"
  /\ pc' = "failed"
  /\ error' = RetryerError
  /\ inflight' = Tail(inflight)
  /\ UNCHANGED <<args, allRepoNodes, cursor, fetchCount, pageCount,
                 lastPageInfo, fetched, errorRes, topLangs>>

\* Lines 83-102: the response carries data.errors.
ReceiveErrors ==
  /\ pc = "await"
  /\ \E res \in ErrorResponses :
       /\ errorRes' = res
       /\ error' = ErrorOfResponse(res.errors, res.statusText)
  /\ pc' = "failed"
  /\ inflight' = Tail(inflight)
  /\ UNCHANGED <<args, allRepoNodes, cursor, fetchCount, pageCount,
                 lastPageInfo, fetched, topLangs>>

\* Lines 104-110 and 81: a page with hasNextPage, then the next fetch.
ReceivePage ==
  /\ pc = "await"
  /\ pageCount + 1 < MaxPages
  /\ \E k \in 0..(MaxNodes - Len(fetched)) :
       \E nodes \in [1..k -> RepoNodes],
          pageInfo \in {p \in PageInfos : p.hasNextPage} :
         /\ allRepoNodes' = ConcatNodes(allRepoNodes, nodes)
         /\ cursor' = NextCursor(cursor, pageInfo)
         /\ fetched' = fetched \o nodes
         /\ lastPageInfo' = pageInfo
         /\ Retryer(1, cursor')
  /\ pageCount' = pageCount + 1
  /\ UNCHANGED <<pc, args, errorRes, error, topLangs>>

\* Lines 104-108: a page without hasNextPage ends the loop.
ReceiveLastPage ==
  /\ pc = "await"
  /\ \E k \in 0..(MaxNodes - Len(fetched)) :
       \E nodes \in [1..k -> RepoNodes],
          pageInfo \in {p \in PageInfos : ~p.hasNextPage} :
         /\ allRepoNodes' = ConcatNodes(allRepoNodes, nodes)
         /\ fetched' = fetched \o nodes
         /\ lastPageInfo' = pageInfo
  /\ pageCount' = pageCount + 1
  /\ pc' = "collected"
  /\ inflight' = Tail(inflight)
  /\ UNCHANGED <<args, cursor, fetchCount, errorRes, error, topLangs>>

\* Lines 113-164: exclusion, flattening, fold, weighting and ranking.
Aggregate ==
  /\ pc = "collected"
  /\ LET visible == VisibleRepos(allRepoNodes,
                                 AllExcludedRepos(exclude_repo, excludeRepositories))
     IN /\ allRepoNodes' = visible
        /\ IF EdgesUnreadable(visible)
           THEN /\ pc' = "failed"
                /\ error' = TypeError
                /\ UNCHANGED topLangs
           ELSE /\ pc' = "done"
                /\ topLangs' = TopLangsOf(visible, size_weight, count_weight)
                /\ UNCHANGED error
  /\ UNCHANGED <<args, cursor, inflight, fetchCount, pageCount, lastPageInfo,
                 fetched, errorRes>>

Next ==
  \/ Call
  \/ RetryerRejects
  \/ ReceiveErrors
  \/ ReceivePage
  \/ ReceiveLastPage
  \/ Aggregate

Spec == Init /\ [][Next]_vars


\* ---------------------------------------------------------------- claims
\* What the claims speak of, stated over the pages as they arrived (fetched)
\* and the arguments, independently of the aggregation above.
Excluded(name) ==
  \/ \E i \in 1..Len(exclude_repo) : exclude_repo[i] = name
  \/ \E i \in 1..Len(excludeRepositories) : excludeRepositories[i] = name

Kept == { i \in 1..Len(fetched) : ~Excluded(fetched[i].name) }

\* The occurrences <<i, j>> of a language: edge j of the non-excluded node i.
Occurrences(lang) ==
  UNION { { <<i, j>> : j \in { e \in 1..Len(fetched[i].edges) :
                                 fetched[i].edges[e].node.name = lang } } :
          i \in Kept }

RECURSIVE SizeSum(_)
SizeSum(occ) ==
  IF occ = {} THEN 0
  ELSE LET ij == CHOOSE x \in occ : TRUE
       IN fetched[ij[1]].edges[ij[2]].size + SizeSum(occ \ {ij})

ReposListing(lang) == { fetched[ij[1]].name : ij \in Occurrences(lang) }

PagingOver == pageCount > 0 /\ ~lastPageInfo.hasNextPage

\* C1: a call with an empty or absent username fails with the missing-parameter
\* error and issues no fetch, whatever the other arguments are.
C1_MissingUsernameFailsBeforeFetch ==
  (username \in {Undefined, ""} /\ pc # "start") =>
    /\ pc = "failed"
    /\ error.class = "MissingParamError"
    /\ fetchCount = 0
    /\ inflight = <<>>
    /\ pageCount = 0

C1_Witness ==
  /\ pc = "failed"
  /\ username = ""
  /\ exclude_repo # <<>>
  /\ size_weight = 2

\* C2: once a page without hasNextPage has arrived the loop is over: every
\* fetch issued has been answered by one page, none is outstanding, and the
\* accumulated list is the pages' nodes, each once (its length is the sum of
\* the pages' node counts).
C2_PaginationTerminatesWithAllNodes ==
  PagingOver =>
    /\ pc \in {"collected", "done", "failed"}
    /\ inflight = <<>>
    /\ fetchCount = pageCount
    /\ pc = "collected" =>
         /\ Len(allRepoNodes) = Len(fetched)
         /\ allRepoNodes = fetched

C2_Witness ==
  /\ pc = "collected"
  /\ pageCount = MaxPages
  /\ Len(allRepoNodes) = MaxNodes
  /\ cursor # Null

\* The first wrapped line of a message: its longest non-empty prefix of words
\* that fits the width (a single word always stays on the line).
IsFirstLine(line, message, width) ==
  /\ Len(line) >= 1
  /\ Len(line) <= Len(message)
  /\ line = SubSeq(message, 1, Len(line))
  /\ Len(line) = 1 \/ LineLength(line) <= width
  /\ Len(line) < Len(message) =>
       LineLength(SubSeq(message, 1, Len(line) + 1)) > width

C4_CountIsDistinctRepos ==
  pc = "done" =>
    \A k \in 1..Len(topLangs) :
      topLangs[k].count = Cardinality(ReposListing(topLangs[k].name))

\* C5: an excluded repository contributes nothing: every language of the
\* output is listed by a repository that is not excluded, and the output is
\* the one the same call gives when the excluded repositories are taken out
\* of the pages.
C5_ExcludedReposContributeNothing ==
  pc = "done" =>
    LET NotExcluded(repo) == ~Excluded(repo.name)
    IN /\ \A k \in 1..Len(topLangs) : Occurrences(topLangs[k].name) # {}
       /\ topLangs = TopLangsOf(SelectSeq(fetched, NotExcluded),
                                size_weight, count_weight)

C5_Witness ==
  /\ pc = "done"
  /\ pageCount = 2
  /\ Len(fetched) = 2
  /\ Excluded(fetched[2].name) /\ ~Excluded(fetched[1].name)
  /\ excludeRepositories # <<>>
  /\ \E j \in 1..Len(fetched[2].edges) :
       \A k \in 1..Len(topLangs) :
         topLangs[k].name # fetched[2].edges[j].node.name
  /\ topLangs # <<>>

\* C6: in the output the language names are pairwise distinct and the sizes
\* never increase from one entry to a later one.
C6_OutputSortedDescendingUniqueKeys ==
  pc = "done" =>
    \A i, j \in 1..Len(topLangs) :
      i < j => /\ topLangs[i].size >= topLangs[j].size
               /\ topLangs[i].name # topLangs[j].name

C6_Witness ==
  /\ pc = "done"
  /\ Len(topLangs) = 2
  /\ topLangs[1].size > topLangs[2].size
  /\ topLangs[1].name = "Y"

\* C7: the final size of a language is pow(S, size_weight) * pow(C,
\* count_weight), S the summed size of its contributing edges and C its
\* count; with weights (1,0) it is S, with (0,1) it is C, also when S = 0.
C7_WeightedSizeFormula ==
  pc = "done" =>
    \A k \in 1..Len(topLangs) :
      LET S == SizeSum(Occurrences(topLangs[k].name))
          C == topLangs[k].count
      IN /\ topLangs[k].size = Pow(S, size_weight) * Pow(C, count_weight)
         /\ (size_weight = 1 /\ count_weight = 0) => topLangs[k].size = S
         /\ (size_weight = 0 /\ count_weight = 1) => topLangs[k].size = C

C7_Witness ==
  /\ pc = "done"
  /\ size_weight = 0
  /\ \E k \in 1..Len(topLangs) :
       /\ SizeSum(Occurrences(topLangs[k].name)) = 0
       /\ topLangs[k].count = 2
       /\ topLangs[k].size = 2

\* The edges in the order the fold processes them.
Processed == FlattenEdges(NonEmptyRepos(allRepoNodes))

EdgesOf(lang) == { i \in 1..Len(Processed) : Processed[i].node.name = lang }

FirstOf(lang) == CHOOSE i \in EdgesOf(lang) : \A j \in EdgesOf(lang) : i <= j
LastOf(lang) == CHOOSE i \in EdgesOf(lang) : \A j \in EdgesOf(lang) : i >= j

\* C8 as stated: the color of a language in the output is the color of the
\* first edge of that language the fold processes.
C8_ColorOfFirstProcessedEdge ==
  pc = "done" =>
    \A k \in 1..Len(topLangs) :
      topLangs[k].color = Processed[FirstOf(topLangs[k].name)].node.color

\* C8 as amended: every edge of a language overwrites its color, so the color
\* in the output is the color of the last edge of that language the fold
\* processes, while size and count add up over all its edges.
C8_ColorOfLastProcessedEdge ==
  pc = "done" =>
    \A k \in 1..Len(topLangs) :
      /\ topLangs[k].color = Processed[LastOf(topLangs[k].name)].node.color
      /\ topLangs[k].count = Cardinality(EdgesOf(topLangs[k].name))

C8_Witness ==
  /\ pc = "done"
  /\ \E k \in 1..Len(topLangs) :
       /\ Cardinality(EdgesOf(topLangs[k].name)) >= 2
       /\ Processed[FirstOf(topLangs[k].name)].node.color = "red"
       /\ Processed[LastOf(topLangs[k].name)].node.color = "blue"
       /\ topLangs[k].color = "blue"

\* C9: fetches are strictly serial: at most one is outstanding, the first has
\* no cursor, a later one carries the endCursor of the page just received,
\* which reported hasNextPage, and none follows a page without hasNextPage.
C9_SerialCursorChain ==
  /\ Len(inflight) <= 1
  /\ fetchCount <= pageCount + 1
  /\ pc = "await" => Len(inflight) = 1 /\ fetchCount = pageCount + 1
  /\ \A i \in 1..Len(inflight) :
       /\ pageCount = 0 => inflight[i].reposAfter = Null
       /\ pageCount > 0 =>
            /\ lastPageInfo.hasNextPage
            /\ inflight[i].reposAfter = lastPageInfo.endCursor
  /\ PagingOver => inflight = <<>> /\ fetchCount = pageCount

C9_Witness ==
  /\ pc = "await"
  /\ pageCount = 1
  /\ fetchCount = 2
  /\ inflight[1].reposAfter = "c2"

\* The pages with every missing language-edge list made an empty one.
Normalized ==
  [i \in 1..Len(fetched) |-> [fetched[i] EXCEPT !.hasEdges = TRUE]]

\* C10: a node without its language-edge list counts as a node with no edges:
\* the call does not fail, and its result is the result for the pages with
\* that list empty.
C10_MissingEdgeListIsEmpty ==
  (PagingOver /\ pc # "collected") =>
    /\ pc = "done"
    /\ topLangs = TopLangsOf(VisibleRepos(Normalized,
                               AllExcludedRepos(exclude_repo, excludeRepositories)),
                             size_weight, count_weight)

====
